---- MODULE Spec2Model ----
(***************************************************************************)
(* InfluxDB backup / restore lambdas (modules/lambdas).                    *)
(*                                                                         *)
(* The four handlers are modelled here, each as a step machine over the    *)
(* statements of its lambda_handler:                                       *)
(*   influxdb_daily_backup.py    Spec, SpecOverlap                         *)
(*   influxdb_daily_restore.py   SpecRestore                               *)
(*   influxdb_monthly_backup.py  SpecMonthly                               *)
(*   influxdb_monthly_restore.py SpecMonthlyRestore                        *)
(* SpecAll runs the four functions one invocation at a time.               *)
(*                                                                         *)
(* A Lambda execution environment (container) serves one invocation at a   *)
(* time and keeps its /tmp between invocations; different containers of    *)
(* the same function run concurrently and share only the object store.     *)
(* Time is counted in ticks: TicksPerSecond ticks make a second and        *)
(* SecondsPerDay seconds make a (scaled) day, so that strftime's           *)
(* truncation and the calendar day of a timestamp are both computed.       *)
(***************************************************************************)
EXTENDS Integers, Sequences, FiniteSets, TLC

\* ------------------------------------------------------------------ bounds
MaxClock == 6
MaxRuns == 2
MaxFiles == 2

\* ------------------------------------------------------- scaled time units
TicksPerSecond == 2
SecondsPerDay == 2

TicksPerDay == TicksPerSecond * SecondsPerDay
\* timedelta(hours=24)
Hours24 == TicksPerDay
\* the first instant explored: not on a whole second
StartClock == Hours24 + 1

Containers == {1, 2}
Names == {"asset_bucket", "cloud_bucket"}

\* An optional value is a sequence of length 0 (absent) or 1 (present).
Absent == <<>>
Some(x) == <<x>>

VARIABLES
    clock,              \* datetime.now(UTC), in ticks
    runs,               \* invocations started so far
    \* ---- object store (S3_BUCKET)
    checkpoint,         \* influx-backups/last_incremental_timestamp_<b>.json
    artifacts,          \* influx-backups/daily/<day>/<b>/data-<day>.csv.gz
    \* ---- daily backup, per container
    pc, buckets, pos, current_time, start_time, backed_up_buckets, response,
    temp_csv, temp_gzip,
    \* ---- daily backup, observation of the run (history)
    unit,               \* per list position: how far its unit of work got
    ckptWrites,         \* list positions whose checkpoint this run has put
    overlapped,         \* the run shared some instant with another run
    lastFail,           \* per bucket: window start of the last failed extraction
    backup_input,       \* the environment and event of the run
    \* ---- daily restore (one container)
    rpc, backup_date, rpos, restored_buckets, failed_buckets, rresponse,
    temp_dir,           \* /tmp/restore exists
    rfiles,             \* the files in /tmp/restore, with their content
    attempted,          \* observation: buckets whose download was started
    load_input,         \* observation: what the load tool was given, and its exit
    restore_input,      \* observation: the environment and event of the run
    \* ---- monthly backup (one container)
    mpc, mpos, mtodo, mresponse,
    mbase,              \* /tmp/backup exists
    mdirs,              \* buckets whose /tmp/backup/<bucket> exists
    mfiles,             \* per bucket: the files in its directory
    muploaded,          \* object store: the snapshot files uploaded
    mphase,             \* observation: per bucket, how far this run got
    mrun,               \* observation: per bucket, what this run did for it
    monthly_input,      \* observation: the environment of the run
    \* ---- monthly restore (one container)
    srpc, srpos, srtodo, srresponse,
    monthly_restored,   \* restored_buckets of the monthly restore
    restore_base,       \* /tmp/restore exists
    restore_dirs,       \* buckets whose /tmp/restore/<bucket> exists
    restore_files,      \* per bucket: the files in its directory
    srphase,            \* observation: per bucket, how far this run got
    srtool,             \* observation: buckets the restore tool was run for
    srinput             \* the environment and event of the run

sharedVars == <<clock, runs, checkpoint, artifacts>>
backupVars == <<pc, buckets, pos, current_time, start_time, backed_up_buckets,
                response, temp_csv, temp_gzip, unit, ckptWrites, overlapped,
                lastFail, backup_input>>
restoreVars == <<rpc, backup_date, rpos, restored_buckets, failed_buckets,
                 rresponse, temp_dir, rfiles, attempted, load_input,
                 restore_input>>
monthlyVars == <<mpc, mpos, mtodo, mresponse, mbase, mdirs, mfiles, muploaded,
                 mphase, mrun, monthly_input>>
monthlyRestoreVars == <<srpc, srpos, srtodo, srresponse, monthly_restored,
                        restore_base, restore_dirs, restore_files, srphase,
                        srtool, srinput>>
vars == <<sharedVars, backupVars, restoreVars, monthlyVars, monthlyRestoreVars>>

\* ================================================================ helpers

\* str.strip() on the strings the inputs are made of
Strip(s) ==
    CASE s = " " -> ""
      [] s = " asset_bucket" -> "asset_bucket"
      [] OTHER -> s

\* [m.strip() for m in measurements if m.strip()]
RECURSIVE StripMeasurements(_)
StripMeasurements(ms) ==
    IF ms = <<>> THEN <<>>
    ELSE IF Strip(Head(ms)) = "" THEN StripMeasurements(Tail(ms))
         ELSE <<Strip(Head(ms))>> \o StripMeasurements(Tail(ms))

\* strftime('%Y-%m-%dT%H:%M:%SZ'): the timestamp cut to whole seconds
Strftime(t) == t - (t % TicksPerSecond)

\* strftime('%Y-%m-%d'): the calendar day of a timestamp
DailyPrefix(t) == t \div TicksPerDay

\* gzip of a file's content, and its inverse
Gzip(content) == [gz |-> content]
Gunzip(blob) == blob.gz

NoResponse == [statusCode |-> 0, buckets |-> <<>>]
ErrorResponse == [statusCode |-> 500, buckets |-> <<>>]

\* monthly backup; error is the class of the exception the body reports
MonthlyErrorResponse(e) == [statusCode |-> 500, error |-> e, buckets |-> <<>>]
NoMonthlyResponse == [statusCode |-> 0, error |-> "", buckets |-> <<>>]

\* what a run of the monthly backup has done for each bucket: the exit of
\* the snapshot tool, the files listed for upload, the files uploaded
NoMonthlyRun ==
    [b \in Names |-> [rc |-> "none", listed |-> {}, uploaded |-> {}]]

\* monthly restore; error is the class of the exception the body reports
\* (MonthlyRestoreUnhandled: the variant in which the exception is not caught)
NoMonthlyRestoreResponse == [statusCode |-> 0, error |-> "", buckets |-> <<>>]
MonthlyRestoreUnhandled(e) ==
    [statusCode |-> 0, error |-> e, buckets |-> <<>>]

MonthlyRestoreErrorResponse(e) ==
    [statusCode |-> 500, error |-> e, buckets |-> <<>>]

\* daily restore; error is the class of the exception the body reports
NoRestoreResponse ==
    [statusCode |-> 0, error |-> "", restored_buckets |-> <<>>,
     failed_buckets |-> <<>>]
RestoreErrorResponse(e) ==
    [statusCode |-> 500, error |-> e, restored_buckets |-> <<>>,
     failed_buckets |-> <<>>]

\* ==================================================== daily backup: inputs

default_buckets ==
    << [name |-> "asset_bucket", measurements |-> <<"cloud_telemetry", "telemetry">>],
       [name |-> "cloud_bucket", measurements |-> <<"savings">>] >>

\* The invocations explored: the environment of the function and the event.
\* bucket_config_env is unset, not JSON, or a JSON list; an entry without
\* a "measurements" key is malformed.
Inputs ==
    { [env_ok |-> FALSE, bucket_config_env |-> [kind |-> "unset", value |-> <<>>],
       event_buckets |-> <<>>],
      [env_ok |-> TRUE, bucket_config_env |-> [kind |-> "unset", value |-> <<>>],
       event_buckets |-> <<>>],
      [env_ok |-> TRUE, bucket_config_env |-> [kind |-> "invalid", value |-> <<>>],
       event_buckets |-> <<>>],
      [env_ok |-> TRUE,
       bucket_config_env |->
           [kind |-> "json",
            value |-> << [name |-> "cloud_bucket", measurements |-> <<" ">>],
                         [name |-> " asset_bucket", measurements |-> <<"telemetry", " ">>] >>],
       event_buckets |-> <<>>],
      [env_ok |-> TRUE, bucket_config_env |-> [kind |-> "unset", value |-> <<>>],
       event_buckets |-> << [name |-> "asset_bucket", measurements |-> <<"telemetry">>] >>],
      [env_ok |-> TRUE, bucket_config_env |-> [kind |-> "unset", value |-> <<>>],
       event_buckets |-> << [name |-> "asset_bucket", measurements |-> <<"telemetry">>],
                            [name |-> "asset_bucket", measurements |-> <<"telemetry">>] >>],
      [env_ok |-> TRUE, bucket_config_env |-> [kind |-> "unset", value |-> <<>>],
       event_buckets |-> << [name |-> "asset_bucket"] >>] }

\* lines 72-82: the event's list, else the environment's, else the default
LoadBuckets(in) ==
    IF in.event_buckets # <<>> THEN in.event_buckets
    ELSE IF in.bucket_config_env.kind = "json" THEN in.bucket_config_env.value
    ELSE default_buckets

\* line 86
ValidBucket(b) == "name" \in DOMAIN b /\ "measurements" \in DOMAIN b

\* lines 88-89
NormalizeBucket(b) ==
    [name |-> Strip(b.name),
     measurements |-> StripMeasurements(b.measurements)]

\* lines 62-64 and 84-87: the environment is complete and every entry of
\* the resolved list has a name and measurements
ConfigValid(in) ==
    /\ in.env_ok
    /\ \A i \in 1..Len(LoadBuckets(in)) : ValidBucket(LoadBuckets(in)[i])

Running(c) == pc[c] \notin {"idle", "done"}

\* ================================================= daily backup: the store

\* Variant: the stored checkpoint is ignored, the default is always used.
get_last_backup_time_default(b) == clock - Hours24

\* get_last_backup_time: the stored timestamp, or 24 hours before the
\* instant of the read when the object does not exist (NoSuchKey).
get_last_backup_time(b) ==
    IF checkpoint[b] # Absent THEN checkpoint[b][1] ELSE clock - Hours24

\* update_last_backup_time: put_object of the timestamp, overwriting
update_last_backup_time(timestamp, b) ==
    [checkpoint EXCEPT ![b] = Some(timestamp)]

\* Variant: an empty extraction writes the default window start.
EmptyCheckpointTimeDefault(c) == clock - Hours24

\* line 161: the timestamp written after an empty extraction
EmptyCheckpointTime(c) == current_time[c]

\* line 196: the timestamp written after an upload
UploadedCheckpointTime(c) == current_time[c]

\* lines 113-115
s3_key(c) == <<DailyPrefix(current_time[c]), buckets[c][pos[c]].name>>

\* Variant: the return code of the tool is not looked at.
ExtractRaisesOnTimeoutOnly(rc) == rc = "timeout"

\* line 149: a non-zero exit of the tool raises; TimeoutExpired is raised
\* by subprocess.run itself
ExtractRaises(rc) == rc # "zero"

\* Variant: a failed upload is logged and not raised.
UploadErrorSwallowed(outcome) == FALSE

\* lines 185-187: ClientError is re-raised; any other exception of
\* upload_fileobj passes the try statement uncaught
UploadRaises(outcome) == outcome # "ok"

\* ============================================== daily backup: observation

FailedStatuses ==
    {"FAILED_READ", "FAILED_EXTRACT", "FAILED_TIMEOUT", "FAILED_COMPRESS",
     "FAILED_UPLOAD", "FAILED_UPDATE"}

\* The unit of work at the current list position moves on; a failure stays.
SetUnit(c, status) ==
    IF unit[c][pos[c]].status \in FailedStatuses THEN unit
    ELSE [unit EXCEPT ![c][pos[c]].status = status]

\* Variant: no bucket is skipped.
SkipBucketNever(b) == FALSE

\* lines 105-108: "if not measurements: continue"
SkipBucket(b) == b.measurements = <<>>

\* Variant: a file that exists is left as it is.
WriteFileKeep(old, content) == IF old # Absent THEN old ELSE Some(content)

\* open(path, "w") / gzip.open(path, "wb"): the file is truncated and then
\* holds what is written to it
WriteFile(old, content) == Some(content)

\* ================================================== daily backup: actions

\* The handler returns from one of its except clauses (lines 209-220).
Fail(c) ==
    /\ pc' = [pc EXCEPT ![c] = "done"]
    /\ response' = [response EXCEPT ![c] = ErrorResponse]
    /\ buckets' = [buckets EXCEPT ![c] = <<>>]
    /\ pos' = [pos EXCEPT ![c] = 0]
    /\ current_time' = [current_time EXCEPT ![c] = 0]
    /\ start_time' = [start_time EXCEPT ![c] = 0]
    /\ backed_up_buckets' = [backed_up_buckets EXCEPT ![c] = <<>>]

\* lines 50-89: environment check, bucket list resolution and validation
InvokeWith(c, inputs) ==
    /\ pc[c] \in {"idle", "done"}
    /\ runs < MaxRuns
    /\ runs' = runs + 1
    /\ \E in \in inputs :
        LET resolved == LoadBuckets(in)
            norm == [i \in 1..Len(resolved) |-> NormalizeBucket(resolved[i])]
        IN  /\ backup_input' = [backup_input EXCEPT ![c] = Some(in)]
            /\ IF ConfigValid(in)
               THEN /\ pc' = [pc EXCEPT ![c] = "token"]
                    /\ buckets' = [buckets EXCEPT ![c] = norm]
                    /\ unit' = [unit EXCEPT ![c] =
                           [i \in 1..Len(norm) |->
                               [name |-> norm[i].name, status |-> "PENDING"]]]
                    /\ response' = [response EXCEPT ![c] = NoResponse]
                    /\ UNCHANGED <<pos, current_time, start_time, backed_up_buckets>>
               ELSE /\ Fail(c)
                    /\ unit' = [unit EXCEPT ![c] = <<>>]
    /\ ckptWrites' = [ckptWrites EXCEPT ![c] = {}]
    /\ overlapped' =
        [d \in Containers |->
            IF d = c THEN \E e \in Containers \ {c} : Running(e)
            ELSE overlapped[d] \/ Running(d)]
    /\ UNCHANGED <<clock, checkpoint, artifacts, temp_csv, temp_gzip, lastFail>>
    /\ UNCHANGED <<restoreVars, monthlyVars, monthlyRestoreVars>>

Invoke(c) == InvokeWith(c, Inputs)

\* The execution environment is recycled between invocations: the next
\* invocation starts in a fresh container with an empty /tmp.
Recycle(c) ==
    /\ ~Running(c)
    /\ temp_csv[c] # Absent \/ temp_gzip[c] # Absent
    /\ temp_csv' = [temp_csv EXCEPT ![c] = Absent]
    /\ temp_gzip' = [temp_gzip EXCEPT ![c] = Absent]
    /\ UNCHANGED <<sharedVars, pc, buckets, pos, current_time, start_time,
                   backed_up_buckets, response, unit, ckptWrites, overlapped,
                   lastFail>>
    /\ UNCHANGED backup_input
    /\ UNCHANGED <<restoreVars, monthlyVars, monthlyRestoreVars>>

\* lines 91-100: secret fetch, then the run's current_time
FetchToken(c) ==
    /\ pc[c] = "token"
    /\ \E outcome \in {"ok", "ClientError"} :
        IF outcome = "ok"
        THEN /\ pc' = [pc EXCEPT ![c] = "loop"]
             /\ current_time' = [current_time EXCEPT ![c] = clock]
             /\ pos' = [pos EXCEPT ![c] = 1]
             /\ backed_up_buckets' = [backed_up_buckets EXCEPT ![c] = <<>>]
             /\ UNCHANGED <<buckets, start_time, response>>
        ELSE Fail(c)
    /\ UNCHANGED <<sharedVars, temp_csv, temp_gzip, unit, ckptWrites, overlapped, lastFail>>
    /\ UNCHANGED backup_input
    /\ UNCHANGED <<restoreVars, monthlyVars, monthlyRestoreVars>>

\* lines 103-108 and 200-207: next bucket, skip, or the success response
LoopHead(c) ==
    /\ pc[c] = "loop"
    /\ IF pos[c] > Len(buckets[c])
       THEN /\ pc' = [pc EXCEPT ![c] = "done"]
            /\ response' = [response EXCEPT ![c] =
                   [statusCode |-> 200, buckets |-> backed_up_buckets[c]]]
            /\ buckets' = [buckets EXCEPT ![c] = <<>>]
            /\ pos' = [pos EXCEPT ![c] = 0]
            /\ current_time' = [current_time EXCEPT ![c] = 0]
            /\ start_time' = [start_time EXCEPT ![c] = 0]
            /\ backed_up_buckets' = [backed_up_buckets EXCEPT ![c] = <<>>]
            /\ UNCHANGED unit
       ELSE IF SkipBucket(buckets[c][pos[c]])
            THEN /\ pos' = [pos EXCEPT ![c] = pos[c] + 1]
                 /\ unit' = SetUnit(c, "SKIPPED")
                 /\ UNCHANGED <<pc, response, buckets, current_time, start_time,
                                backed_up_buckets>>
            ELSE /\ pc' = [pc EXCEPT ![c] = "read"]
                 /\ UNCHANGED <<unit, response, buckets, pos, current_time,
                                start_time, backed_up_buckets>>
    /\ UNCHANGED <<sharedVars, temp_csv, temp_gzip, ckptWrites, overlapped, lastFail>>
    /\ UNCHANGED backup_input
    /\ UNCHANGED <<restoreVars, monthlyVars, monthlyRestoreVars>>

\* lines 117-121: the window of this bucket
ReadCheckpoint(c) ==
    /\ pc[c] = "read"
    /\ \E outcome \in {"ok", "ClientError"} :
        IF outcome = "ok"
        THEN /\ start_time' = [start_time EXCEPT ![c] =
                    get_last_backup_time(buckets[c][pos[c]].name)]
             /\ pc' = [pc EXCEPT ![c] = "extract"]
             /\ unit' = SetUnit(c, "READ")
             /\ UNCHANGED <<buckets, pos, current_time, backed_up_buckets, response>>
        ELSE /\ Fail(c)
             /\ unit' = SetUnit(c, "FAILED_READ")
    /\ UNCHANGED <<sharedVars, temp_csv, temp_gzip, ckptWrites, overlapped, lastFail>>
    /\ UNCHANGED backup_input
    /\ UNCHANGED <<restoreVars, monthlyVars, monthlyRestoreVars>>

\* lines 139-151: open(temp_csv, "w") truncates the file, the tool writes
\* its output there; the file stays when the tool fails
Extract(c) ==
    /\ pc[c] = "extract"
    /\ \E rc \in {"zero", "nonzero", "timeout"}, rows \in {0, 1} :
        /\ temp_csv' = [temp_csv EXCEPT ![c] =
               WriteFile(temp_csv[c],
                    [bucket |-> buckets[c][pos[c]].name,
                     start |-> Strftime(start_time[c]),
                     stop |-> Strftime(current_time[c]),
                     rows |-> rows])]
        /\ IF ExtractRaises(rc)
           THEN /\ Fail(c)
                /\ unit' = SetUnit(c, IF rc = "timeout" THEN "FAILED_TIMEOUT"
                                                      ELSE "FAILED_EXTRACT")
                /\ lastFail' = [lastFail EXCEPT ![buckets[c][pos[c]].name] =
                       Some(Strftime(start_time[c]))]
           ELSE /\ pc' = [pc EXCEPT ![c] = "check"]
                /\ unit' = SetUnit(c, IF rc = "zero" THEN "EXTRACTED"
                                      ELSE IF rc = "timeout" THEN "FAILED_TIMEOUT"
                                      ELSE "FAILED_EXTRACT")
                /\ UNCHANGED <<buckets, pos, current_time, start_time,
                               backed_up_buckets, response, lastFail>>
    /\ UNCHANGED <<sharedVars, temp_gzip, ckptWrites, overlapped>>
    /\ UNCHANGED backup_input
    /\ UNCHANGED <<restoreVars, monthlyVars, monthlyRestoreVars>>

\* lines 153-163: an empty output file is removed and the bucket goes
\* straight to its checkpoint update
CheckEmpty(c) ==
    /\ pc[c] = "check"
    /\ IF temp_csv[c][1].rows = 0
       THEN /\ temp_csv' = [temp_csv EXCEPT ![c] = Absent]
            /\ pc' = [pc EXCEPT ![c] = "update_empty"]
            /\ unit' = SetUnit(c, "EMPTY")
       ELSE /\ pc' = [pc EXCEPT ![c] = "compress"]
            /\ UNCHANGED <<temp_csv, unit>>
    /\ UNCHANGED <<sharedVars, buckets, pos, current_time, start_time,
                   backed_up_buckets, response, temp_gzip, ckptWrites,
                   overlapped, lastFail>>
    /\ UNCHANGED backup_input
    /\ UNCHANGED <<restoreVars, monthlyVars, monthlyRestoreVars>>

\* lines 165-173: gzip.open(temp_gzip, "wb") creates the file; when the
\* copy raises (OSError) both files stay behind
Compress(c) ==
    /\ pc[c] = "compress"
    /\ \E outcome \in {"ok", "OSError"} :
        IF outcome = "ok"
        THEN /\ temp_gzip' = [temp_gzip EXCEPT ![c] =
                    WriteFile(temp_gzip[c], Gzip(temp_csv[c][1]))]
             /\ temp_csv' = [temp_csv EXCEPT ![c] = Absent]
             /\ pc' = [pc EXCEPT ![c] = "upload"]
             /\ unit' = SetUnit(c, "COMPRESSED")
             /\ UNCHANGED <<buckets, pos, current_time, start_time,
                            backed_up_buckets, response>>
        ELSE /\ temp_gzip' = [temp_gzip EXCEPT ![c] =
                    WriteFile(temp_gzip[c], Gzip([temp_csv[c][1] EXCEPT !.rows = 0]))]
             /\ UNCHANGED temp_csv
             /\ Fail(c)
             /\ unit' = SetUnit(c, "FAILED_COMPRESS")
    /\ UNCHANGED <<sharedVars, ckptWrites, overlapped, lastFail>>
    /\ UNCHANGED backup_input
    /\ UNCHANGED <<restoreVars, monthlyVars, monthlyRestoreVars>>

\* lines 175-193: upload_fileobj; the finally clause removes temp_gzip
Upload(c) ==
    /\ pc[c] = "upload"
    /\ temp_gzip' = [temp_gzip EXCEPT ![c] = Absent]
    /\ \E outcome \in {"ok", "ClientError", "S3UploadFailedError"} :
        /\ IF outcome = "ok"
           THEN artifacts' = (s3_key(c) :> temp_gzip[c][1]) @@ artifacts
           ELSE UNCHANGED artifacts
        /\ IF UploadRaises(outcome)
           THEN /\ Fail(c)
                /\ unit' = SetUnit(c, "FAILED_UPLOAD")
           ELSE /\ pc' = [pc EXCEPT ![c] = "update_uploaded"]
                /\ unit' = SetUnit(c, IF outcome = "ok" THEN "UPLOADED"
                                                       ELSE "FAILED_UPLOAD")
                /\ UNCHANGED <<buckets, pos, current_time, start_time,
                               backed_up_buckets, response>>
    /\ UNCHANGED <<clock, runs, checkpoint, temp_csv, ckptWrites, overlapped, lastFail>>
    /\ UNCHANGED backup_input
    /\ UNCHANGED <<restoreVars, monthlyVars, monthlyRestoreVars>>

\* lines 161-163 and 195-198: put the checkpoint, then record the bucket
UpdateCheckpoint(c) ==
    /\ pc[c] \in {"update_empty", "update_uploaded"}
    /\ \E outcome \in {"ok", "ClientError"} :
        LET b == buckets[c][pos[c]].name
            timestamp == IF pc[c] = "update_empty" THEN EmptyCheckpointTime(c)
                         ELSE UploadedCheckpointTime(c)
        IN  IF outcome = "ok"
            THEN /\ checkpoint' = update_last_backup_time(timestamp, b)
                 /\ ckptWrites' = [ckptWrites EXCEPT ![c] = @ \cup {pos[c]}]
                 /\ lastFail' = [lastFail EXCEPT ![b] = Absent]
                 /\ backed_up_buckets' =
                        [backed_up_buckets EXCEPT ![c] = Append(@, b)]
                 /\ pos' = [pos EXCEPT ![c] = pos[c] + 1]
                 /\ pc' = [pc EXCEPT ![c] = "loop"]
                 /\ unit' = SetUnit(c, "CHECKPOINTED")
                 /\ UNCHANGED <<buckets, current_time, start_time, response>>
            ELSE /\ Fail(c)
                 /\ unit' = SetUnit(c, "FAILED_UPDATE")
                 /\ UNCHANGED <<checkpoint, ckptWrites, lastFail>>
    /\ UNCHANGED <<clock, runs, artifacts, temp_csv, temp_gzip, overlapped>>
    /\ UNCHANGED backup_input
    /\ UNCHANGED <<restoreVars, monthlyVars, monthlyRestoreVars>>

\* the wall clock advances
Tick ==
    /\ clock < MaxClock
    /\ clock' = clock + 1
    /\ UNCHANGED <<runs, checkpoint, artifacts>>
    /\ UNCHANGED <<backupVars, restoreVars, monthlyVars, monthlyRestoreVars>>

\* =========================================================== initial state

InitShared ==
    /\ clock = StartClock
    /\ runs = 0
    /\ checkpoint = [b \in Names |-> Absent]
    /\ artifacts = <<>>

InitBackup ==
    /\ pc = [c \in Containers |-> "idle"]
    /\ buckets = [c \in Containers |-> <<>>]
    /\ pos = [c \in Containers |-> 0]
    /\ current_time = [c \in Containers |-> 0]
    /\ start_time = [c \in Containers |-> 0]
    /\ backed_up_buckets = [c \in Containers |-> <<>>]
    /\ response = [c \in Containers |-> NoResponse]
    /\ temp_csv = [c \in Containers |-> Absent]
    /\ temp_gzip = [c \in Containers |-> Absent]
    /\ unit = [c \in Containers |-> <<>>]
    /\ ckptWrites = [c \in Containers |-> {}]
    /\ overlapped = [c \in Containers |-> FALSE]
    /\ lastFail = [b \in Names |-> Absent]
    /\ backup_input = [c \in Containers |-> Absent]

InitRestore ==
    /\ rpc = "idle"
    /\ backup_date = 0
    /\ rpos = 0
    /\ restored_buckets = <<>>
    /\ failed_buckets = <<>>
    /\ rresponse = NoRestoreResponse
    /\ temp_dir = FALSE
    /\ rfiles = <<>>
    /\ attempted = <<>>
    /\ load_input = <<>>
    /\ restore_input = Absent

InitMonthly ==
    /\ mpc = "idle"
    /\ mpos = 0
    /\ mtodo = <<>>
    /\ mresponse = NoMonthlyResponse
    /\ mbase = FALSE
    /\ mdirs = {}
    /\ mfiles = [b \in Names |-> {}]
    /\ muploaded = {}
    /\ mphase = [b \in Names |-> "none"]
    /\ mrun = NoMonthlyRun
    /\ monthly_input = Absent

InitMonthlyRestore ==
    /\ srpc = "idle"
    /\ srpos = 0
    /\ srtodo = <<>>
    /\ srresponse = NoMonthlyRestoreResponse
    /\ monthly_restored = <<>>
    /\ restore_base = FALSE
    /\ restore_dirs = {}
    /\ restore_files = [b \in Names |-> {}]
    /\ srphase = [b \in Names |-> "none"]
    /\ srtool = <<>>
    /\ srinput = Absent

Init ==
    InitShared /\ InitBackup /\ InitRestore /\ InitMonthly /\ InitMonthlyRestore

\* ===================================================== daily backup: specs

Step(c) ==
    \/ FetchToken(c)
    \/ LoopHead(c)
    \/ ReadCheckpoint(c)
    \/ Extract(c)
    \/ CheckEmpty(c)
    \/ Compress(c)
    \/ Upload(c)
    \/ UpdateCheckpoint(c)

\* One invocation at a time (the schedule the operators are asked to keep),
\* served by a warm container or, after Recycle, by a fresh one.
Main == 1

Next ==
    \/ Invoke(Main)
    \/ Step(Main)
    \/ Recycle(Main)
    \/ Tick

Spec == Init /\ [][Next]_vars

\* Two containers of the function, not coordinated: invocations may overlap.
\* Their events name one bucket, or are rejected.
OverlapInputs ==
    { in \in Inputs : ~in.env_ok \/ Len(in.event_buckets) = 1 }

NextOverlap ==
    \/ \E c \in Containers : InvokeWith(c, OverlapInputs)
    \/ \E c \in Containers : Step(c)
    \/ Tick

SpecOverlap == Init /\ [][NextOverlap]_vars

\* =========================================================== daily restore

\* lines 48-51: the buckets restored, in order
restore_buckets == <<"asset_bucket", "cloud_bucket">>

\* The invocations explored: the environment and the event's backup_date
\* (missing, not YYYY-MM-DD, or the date of a day).
RestoreInputs ==
    { [env_ok |-> FALSE, date_kind |-> "date", day |-> 1],
      [env_ok |-> TRUE, date_kind |-> "missing", day |-> 0],
      [env_ok |-> TRUE, date_kind |-> "malformed", day |-> 0],
      [env_ok |-> TRUE, date_kind |-> "date", day |-> 1],
      [env_ok |-> TRUE, date_kind |-> "date", day |-> 2] }

\* lines 34-45: the environment is complete and backup_date parses
RestoreConfigValid(in) == in.env_ok /\ in.date_kind = "date"

\* lines 72-75
restore_key(b) == <<backup_date, b>>
restore_gzip(b) == <<b, "_data.csv.gz">>
restore_csv(b) == <<b, "_data.csv">>

\* the files of /tmp/restore without the named one (os.remove)
RemoveFile(files, f) == [g \in DOMAIN files \ {f} |-> files[g]]

\* Variant: only a non-zero exit fails the bucket.
LoadRaisesOnNonZeroOnly(rc) == rc = "nonzero"

\* lines 103-111: a non-zero exit raises inside the bucket's try statement;
\* TimeoutExpired is raised there by subprocess.run itself
LoadRaises(rc) == rc # "zero"

\* Variant: a failed bucket leaves the loop (break instead of continue).
BucketFailedBreak(b) ==
    /\ failed_buckets' = Append(failed_buckets, b)
    /\ rpos' = rpos + 1
    /\ rpc' = "finish"
    /\ UNCHANGED restored_buckets

\* lines 123-134: every exception of a bucket's try statement is caught,
\* the bucket is recorded as failed and the loop continues
BucketFailed(b) ==
    /\ failed_buckets' = Append(failed_buckets, b)
    /\ rpos' = rpos + 1
    /\ rpc' = IF rpos + 1 > Len(restore_buckets) THEN "finish" ELSE "download"
    /\ UNCHANGED restored_buckets

\* the handler returns from one of its outer except clauses (lines 164-175)
RestoreFail(e) ==
    /\ rpc' = "done"
    /\ rresponse' = RestoreErrorResponse(e)
    /\ rpos' = 0
    /\ UNCHANGED <<restored_buckets, failed_buckets>>

\* lines 24-45: environment and backup_date validation
RestoreInvoke ==
    /\ rpc \in {"idle", "done"}
    /\ runs < MaxRuns
    /\ runs' = runs + 1
    /\ attempted' = <<>>
    /\ load_input' = <<>>
    /\ \E in \in RestoreInputs :
        /\ restore_input' = Some(in)
        /\ IF RestoreConfigValid(in)
           THEN /\ rpc' = "token"
                /\ backup_date' = in.day
                /\ rresponse' = NoRestoreResponse
                /\ restored_buckets' = <<>>
                /\ failed_buckets' = <<>>
                /\ rpos' = 0
           ELSE /\ rpc' = "done"
                /\ rresponse' = RestoreErrorResponse("ValueError")
                /\ restored_buckets' = <<>>
                /\ failed_buckets' = <<>>
                /\ rpos' = 0
                /\ UNCHANGED backup_date
    /\ UNCHANGED <<clock, checkpoint, artifacts, temp_dir, rfiles>>
    /\ UNCHANGED <<backupVars, monthlyVars, monthlyRestoreVars>>

\* lines 53-65: secret fetch, then os.makedirs(temp_dir, exist_ok=True)
RestoreFetchToken ==
    /\ rpc = "token"
    /\ \E outcome \in {"ok", "ClientError"} :
        IF outcome = "ok"
        THEN /\ temp_dir' = TRUE
             /\ rpos' = 1
             /\ rpc' = "download"
             /\ UNCHANGED <<restored_buckets, failed_buckets, rresponse>>
        ELSE /\ RestoreFail("ClientError")
             /\ UNCHANGED temp_dir
    /\ UNCHANGED <<sharedVars, backup_date, rfiles, attempted, load_input>>
    /\ UNCHANGED restore_input
    /\ UNCHANGED <<backupVars, monthlyVars, monthlyRestoreVars>>

\* lines 78-80: download_file writes temp_gzip only when it succeeds; a
\* missing key is a ClientError with code 404
RestoreDownload ==
    /\ rpc = "download"
    /\ LET b == restore_buckets[rpos]
       IN  /\ attempted' = Append(attempted, b)
           /\ \E outcome \in {"ok", "404", "ClientError"} :
                /\ outcome = "ok" => restore_key(b) \in DOMAIN artifacts
                /\ outcome = "404" => restore_key(b) \notin DOMAIN artifacts
                /\ IF outcome = "ok"
                   THEN /\ rfiles' = (restore_gzip(b) :> artifacts[restore_key(b)]) @@ rfiles
                        /\ rpc' = "decompress"
                        /\ UNCHANGED <<rpos, restored_buckets, failed_buckets>>
                   ELSE /\ BucketFailed(b)
                        /\ UNCHANGED rfiles
    /\ UNCHANGED <<sharedVars, backup_date, rresponse, temp_dir, load_input>>
    /\ UNCHANGED restore_input
    /\ UNCHANGED <<backupVars, monthlyVars, monthlyRestoreVars>>

\* lines 82-90: open(temp_csv, "wb") creates the file before the gzip
\* stream is read; temp_gzip is removed only after the copy
RestoreDecompress ==
    /\ rpc = "decompress"
    /\ LET b == restore_buckets[rpos]
       IN  \E outcome \in {"ok", "BadGzipFile"} :
            IF outcome = "ok"
            THEN /\ rfiles' = RemoveFile(
                        (restore_csv(b) :> Gunzip(rfiles[restore_gzip(b)])) @@ rfiles,
                        restore_gzip(b))
                 /\ rpc' = "load"
                 /\ UNCHANGED <<rpos, restored_buckets, failed_buckets>>
            ELSE /\ rfiles' = (restore_csv(b) :> [rows |-> 0]) @@ rfiles
                 /\ BucketFailed(b)
    /\ UNCHANGED <<sharedVars, backup_date, rresponse, temp_dir, attempted, load_input>>
    /\ UNCHANGED restore_input
    /\ UNCHANGED <<backupVars, monthlyVars, monthlyRestoreVars>>

\* lines 92-121: influx write; temp_csv is removed after a zero exit
RestoreLoad ==
    /\ rpc = "load"
    /\ LET b == restore_buckets[rpos]
       IN  \E rc \in {"zero", "nonzero", "timeout"} :
            /\ load_input' = Append(load_input,
                    [bucket |-> b, file |-> rfiles[restore_csv(b)], rc |-> rc])
            /\ IF LoadRaises(rc)
               THEN /\ BucketFailed(b)
                    /\ UNCHANGED rfiles
               ELSE /\ rfiles' = RemoveFile(rfiles, restore_csv(b))
                    /\ restored_buckets' = Append(restored_buckets, b)
                    /\ rpos' = rpos + 1
                    /\ rpc' = IF rpos + 1 > Len(restore_buckets) THEN "finish"
                              ELSE "download"
                    /\ UNCHANGED failed_buckets
    /\ UNCHANGED <<sharedVars, backup_date, rresponse, temp_dir, attempted>>
    /\ UNCHANGED restore_input
    /\ UNCHANGED <<backupVars, monthlyVars, monthlyRestoreVars>>

\* Variant: any failed bucket makes the run a failure.
RestoreStatusAllOrNothing(restored, failed) ==
    IF failed # <<>> THEN 500 ELSE 200

\* lines 144-162: the status of the response
RestoreStatus(restored, failed) ==
    IF restored = <<>> /\ failed # <<>> THEN 500
    ELSE IF restored # <<>> THEN 200 ELSE 500

\* lines 136-162: os.rmdir succeeds on an empty directory only; then the
\* response
RestoreFinish ==
    /\ rpc = "finish"
    /\ temp_dir' = (rfiles # <<>>)
    /\ rresponse' =
        [statusCode |-> RestoreStatus(restored_buckets, failed_buckets),
         error |-> "",
         restored_buckets |-> IF restored_buckets = <<>> /\ failed_buckets # <<>>
                              THEN <<>> ELSE restored_buckets,
         failed_buckets |-> failed_buckets]
    /\ rpc' = "done"
    /\ rpos' = 0
    /\ UNCHANGED <<restored_buckets, failed_buckets>>
    /\ UNCHANGED <<sharedVars, backup_date, rfiles, attempted, load_input>>
    /\ UNCHANGED restore_input
    /\ UNCHANGED <<backupVars, monthlyVars, monthlyRestoreVars>>

\* The execution environment is recycled between invocations.
RestoreRecycle ==
    /\ rpc \in {"idle", "done"}
    /\ temp_dir
    /\ temp_dir' = FALSE
    /\ rfiles' = <<>>
    /\ UNCHANGED <<sharedVars, rpc, backup_date, rpos, restored_buckets,
                   failed_buckets, rresponse, attempted, load_input>>
    /\ UNCHANGED restore_input
    /\ UNCHANGED <<backupVars, monthlyVars, monthlyRestoreVars>>

\* The object store as earlier backup runs of the first day left it: an
\* artifact for any subset of the buckets.
StoredArtifacts(S) ==
    [k \in {<<DailyPrefix(StartClock), n>> : n \in S} |->
        Gzip([bucket |-> k[2], start |-> Strftime(StartClock - Hours24),
              stop |-> Strftime(StartClock), rows |-> 1])]

InitRestoreStore ==
    /\ clock = StartClock
    /\ runs = 0
    /\ checkpoint = [b \in Names |-> Absent]
    /\ artifacts \in {StoredArtifacts(S) : S \in SUBSET Names}
    /\ InitBackup /\ InitRestore /\ InitMonthly /\ InitMonthlyRestore

NextRestore ==
    \/ RestoreInvoke
    \/ RestoreFetchToken
    \/ RestoreDownload
    \/ RestoreDecompress
    \/ RestoreLoad
    \/ RestoreFinish
    \/ RestoreRecycle

SpecRestore == InitRestoreStore /\ [][NextRestore]_vars

\* ========================================================== monthly backup

\* line 39
monthly_buckets == <<"asset_bucket", "cloud_bucket">>

\* The files the snapshot tool writes into a bucket's directory.
SnapshotFiles == 1..MaxFiles

\* os.listdir(backup_path), in some order
RECURSIVE ListDir(_)
ListDir(files) ==
    IF files = {} THEN <<>>
    ELSE LET f == CHOOSE x \in files : \A y \in files : x <= y
         IN  <<f>> \o ListDir(files \ {f})

\* the handler returns from one of its except clauses (lines 118-129)
MonthlyFail(e) ==
    /\ mpc' = "done"
    /\ mresponse' = MonthlyErrorResponse(e)
    /\ mpos' = 0
    /\ mtodo' = <<>>

\* lines 24-36: environment validation
MonthlyInvoke ==
    /\ mpc \in {"idle", "done"}
    /\ runs < MaxRuns
    /\ runs' = runs + 1
    /\ mphase' = [b \in Names |-> "none"]
    /\ mrun' = NoMonthlyRun
    /\ \E env_ok \in BOOLEAN :
        /\ monthly_input' = Some([env_ok |-> env_ok])
        /\ IF env_ok
           THEN /\ mpc' = "token"
                /\ mresponse' = NoMonthlyResponse
                /\ mpos' = 0
                /\ mtodo' = <<>>
           ELSE MonthlyFail("ValueError")
    /\ UNCHANGED <<clock, checkpoint, artifacts, mbase, mdirs, mfiles, muploaded>>
    /\ UNCHANGED <<backupVars, restoreVars, monthlyRestoreVars>>

\* lines 41-50: secret fetch, then os.makedirs(backup_base_path)
MonthlyFetchToken ==
    /\ mpc = "token"
    /\ \E outcome \in {"ok", "ClientError"} :
        IF outcome = "ok"
        THEN /\ mbase' = TRUE
             /\ mpos' = 1
             /\ mpc' = "snapshot"
             /\ UNCHANGED <<mresponse, mtodo>>
        ELSE /\ MonthlyFail("ClientError")
             /\ UNCHANGED mbase
    /\ UNCHANGED <<sharedVars, mdirs, mfiles, muploaded, mphase, mrun>>
    /\ UNCHANGED monthly_input
    /\ UNCHANGED <<backupVars, restoreVars, monthlyRestoreVars>>

\* Variant: the return code of the snapshot tool is not looked at.
SnapshotRaisesOnTimeoutOnly(rc) == rc = "timeout"

\* lines 66-69: a non-zero exit raises; TimeoutExpired is raised by
\* subprocess.run itself
SnapshotRaises(rc) == rc # "zero"

\* lines 53-73: os.makedirs(backup_path), the snapshot tool writes its
\* files there, and the directory is listed for the upload loop
MonthlySnapshot ==
    /\ mpc = "snapshot"
    /\ LET b == monthly_buckets[mpos]
       IN  /\ mdirs' = mdirs \cup {b}
           /\ \E rc \in {"zero", "nonzero", "timeout"}, written \in SUBSET SnapshotFiles :
                /\ rc = "zero" => written # {}
                /\ mfiles' = [mfiles EXCEPT ![b] = @ \cup written]
                /\ mrun' = [mrun EXCEPT ![b].rc = rc,
                                        ![b].listed =
                                            IF SnapshotRaises(rc) THEN {}
                                            ELSE mfiles[b] \cup written]
                /\ IF SnapshotRaises(rc)
                   THEN /\ MonthlyFail(IF rc = "timeout" THEN "TimeoutExpired"
                                                         ELSE "Exception")
                        /\ mphase' = [mphase EXCEPT ![b] = "snapshot_failed"]
                   ELSE /\ mtodo' = ListDir(mfiles[b] \cup written)
                        /\ mpc' = "upload"
                        /\ mphase' = [mphase EXCEPT ![b] = "uploading"]
                        /\ UNCHANGED <<mpos, mresponse>>
    /\ UNCHANGED <<sharedVars, mbase, muploaded>>
    /\ UNCHANGED monthly_input
    /\ UNCHANGED <<backupVars, restoreVars, monthlyRestoreVars>>

\* lines 84-86: ClientError is re-raised; any other exception of
\* upload_fileobj passes the try statement uncaught
SnapshotUploadRaises(outcome) == outcome # "ok"

\* lines 73-92: one file of the listing is uploaded; the finally clause
\* removes that file, whatever the outcome
MonthlyUploadFile ==
    /\ mpc = "upload"
    /\ mtodo # <<>>
    /\ LET b == monthly_buckets[mpos]
           f == Head(mtodo)
       IN  /\ mfiles' = [mfiles EXCEPT ![b] = @ \ {f}]
           /\ \E outcome \in {"ok", "ClientError"} :
                /\ muploaded' = IF outcome = "ok" THEN muploaded \cup {<<b, f>>}
                                ELSE muploaded
                /\ mrun' = IF outcome = "ok"
                           THEN [mrun EXCEPT ![b].uploaded = @ \cup {f}]
                           ELSE mrun
                /\ IF SnapshotUploadRaises(outcome)
                   THEN /\ MonthlyFail("ClientError")
                        /\ mphase' = [mphase EXCEPT ![b] = "upload_failed"]
                   ELSE /\ mtodo' = Tail(mtodo)
                        /\ UNCHANGED <<mpc, mpos, mresponse, mphase>>
    /\ UNCHANGED <<sharedVars, mbase, mdirs>>
    /\ UNCHANGED monthly_input
    /\ UNCHANGED <<backupVars, restoreVars, monthlyRestoreVars>>

\* lines 94-99: after the last file, os.rmdir(backup_path), which
\* succeeds on an empty directory only; then the next bucket
MonthlyRemoveDir ==
    /\ mpc = "upload"
    /\ mtodo = <<>>
    /\ LET b == monthly_buckets[mpos]
       IN  /\ mdirs' = IF mfiles[b] = {} THEN mdirs \ {b} ELSE mdirs
           /\ mphase' = [mphase EXCEPT ![b] = "uploaded"]
    /\ mpos' = mpos + 1
    /\ mpc' = IF mpos + 1 > Len(monthly_buckets) THEN "finish" ELSE "snapshot"
    /\ UNCHANGED <<sharedVars, mtodo, mresponse, mbase, mfiles, muploaded, mrun>>
    /\ UNCHANGED monthly_input
    /\ UNCHANGED <<backupVars, restoreVars, monthlyRestoreVars>>

\* lines 102-116: os.rmdir(backup_base_path), then the success response
MonthlyFinish ==
    /\ mpc = "finish"
    /\ mbase' = (mdirs # {})
    /\ mresponse' = [statusCode |-> 200, error |-> "", buckets |-> monthly_buckets]
    /\ mpc' = "done"
    /\ mpos' = 0
    /\ UNCHANGED <<sharedVars, mtodo, mdirs, mfiles, muploaded, mphase, mrun>>
    /\ UNCHANGED monthly_input
    /\ UNCHANGED <<backupVars, restoreVars, monthlyRestoreVars>>

\* The execution environment is recycled between invocations.
MonthlyRecycle ==
    /\ mpc \in {"idle", "done"}
    /\ mbase
    /\ mbase' = FALSE
    /\ mdirs' = {}
    /\ mfiles' = [b \in Names |-> {}]
    /\ UNCHANGED <<sharedVars, mpc, mpos, mtodo, mresponse, muploaded, mphase,
                   mrun>>
    /\ UNCHANGED monthly_input
    /\ UNCHANGED <<backupVars, restoreVars, monthlyRestoreVars>>

NextMonthly ==
    \/ MonthlyInvoke
    \/ MonthlyFetchToken
    \/ MonthlySnapshot
    \/ MonthlyUploadFile
    \/ MonthlyRemoveDir
    \/ MonthlyFinish
    \/ MonthlyRecycle

SpecMonthly == Init /\ [][NextMonthly]_vars

\* ========================================================= monthly restore

\* lines 55-58: the buckets restored, in order, and their destinations
monthly_restore_buckets == <<"asset_bucket", "cloud_bucket">>

dest_bucket(b) ==
    CASE b = "asset_bucket" -> "restored_asset_bucket"
      [] b = "cloud_bucket" -> "restored_cloud_bucket"

\* The invocations explored: the environment and the event's
\* backup_timestamp (missing, not YYYYMMDDTHHMMSSZ, or that of a snapshot).
\* env_ok: INFLUXDB_URL, INFLUXDB_TOKEN, INFLUXDB_ORG and S3_BUCKET are set;
\* new_org: INFLUXDB_NEW_ORG is set.
MonthlyRestoreInputs ==
    { [env_ok |-> FALSE, new_org |-> TRUE, timestamp_kind |-> "valid"],
      [env_ok |-> TRUE, new_org |-> TRUE, timestamp_kind |-> "missing"],
      [env_ok |-> TRUE, new_org |-> TRUE, timestamp_kind |-> "malformed"],
      [env_ok |-> TRUE, new_org |-> TRUE, timestamp_kind |-> "valid"],
      [env_ok |-> TRUE, new_org |-> FALSE, timestamp_kind |-> "valid"] }

\* lines 34-45: the four validated variables are set and backup_timestamp
\* parses; INFLUXDB_NEW_ORG (line 31) is not looked at
MonthlyRestoreConfigValid(in) == in.env_ok /\ in.timestamp_kind = "valid"

\* line 76: the objects under the bucket's prefix of the snapshot
ListedObjects(b) == {f \in SnapshotFiles : <<b, f>> \in muploaded}

\* Variant: a bucket without objects is handed to the restore tool.
ListingEmptyNever(listing) == FALSE

\* line 77: the listing has no "Contents"
ListingEmpty(listing) == listing = {}

\* lines 101-103: a non-zero exit raises; TimeoutExpired is raised by
\* subprocess.run itself
RestoreToolRaises(rc) == rc # "zero"

\* the handler returns from one of its except clauses (lines 138-149)
MonthlyRestoreFail(e) ==
    /\ srpc' = "done"
    /\ srresponse' = MonthlyRestoreErrorResponse(e)
    /\ srpos' = 0
    /\ srtodo' = <<>>
    /\ monthly_restored' = <<>>

\* the loop goes on to the next bucket, or is over
MonthlyRestoreNextBucket ==
    /\ srpos' = srpos + 1
    /\ srpc' = IF srpos + 1 > Len(monthly_restore_buckets) THEN "finish"
               ELSE "list"
    /\ srtodo' = <<>>

\* lines 23-45: environment and backup_timestamp validation
MonthlyRestoreInvoke ==
    /\ srpc \in {"idle", "done"}
    /\ runs < MaxRuns
    /\ runs' = runs + 1
    /\ srphase' = [b \in Names |-> "none"]
    /\ srtool' = <<>>
    /\ \E in \in MonthlyRestoreInputs :
        /\ srinput' = Some(in)
        /\ IF MonthlyRestoreConfigValid(in)
           THEN /\ srpc' = "token"
                /\ srresponse' = NoMonthlyRestoreResponse
                /\ srpos' = 0
                /\ srtodo' = <<>>
                /\ monthly_restored' = <<>>
           ELSE MonthlyRestoreFail("ValueError")
    /\ UNCHANGED <<clock, checkpoint, artifacts, restore_base, restore_dirs,
                   restore_files>>
    /\ UNCHANGED <<backupVars, restoreVars, monthlyVars>>

\* lines 47-65: secret fetch, then os.makedirs(restore_base_path)
MonthlyRestoreFetchToken ==
    /\ srpc = "token"
    /\ \E outcome \in {"ok", "ClientError"} :
        IF outcome = "ok"
        THEN /\ restore_base' = TRUE
             /\ srpos' = 1
             /\ srpc' = "list"
             /\ UNCHANGED <<srresponse, srtodo, monthly_restored>>
        ELSE /\ MonthlyRestoreFail("ClientError")
             /\ UNCHANGED restore_base
    /\ UNCHANGED <<sharedVars, restore_dirs, restore_files, srphase, srtool,
                   srinput>>
    /\ UNCHANGED <<backupVars, restoreVars, monthlyVars>>

\* lines 66-79: os.makedirs(restore_path), then the listing of the bucket's
\* prefix; without objects the loop continues with the next bucket
MonthlyRestoreList ==
    /\ srpc = "list"
    /\ LET b == monthly_restore_buckets[srpos]
       IN  /\ restore_dirs' = restore_dirs \cup {b}
           /\ \E outcome \in {"ok", "ClientError"} :
                IF outcome = "ClientError"
                THEN /\ MonthlyRestoreFail("ClientError")
                     /\ srphase' = [srphase EXCEPT ![b] = "list_failed"]
                ELSE IF ListingEmpty(ListedObjects(b))
                THEN /\ MonthlyRestoreNextBucket
                     /\ srphase' = [srphase EXCEPT ![b] = "skipped"]
                     /\ UNCHANGED <<srresponse, monthly_restored>>
                ELSE /\ srtodo' = ListDir(ListedObjects(b))
                     /\ srpc' = "download"
                     /\ srphase' = [srphase EXCEPT ![b] = "downloading"]
                     /\ UNCHANGED <<srpos, srresponse, monthly_restored>>
    /\ UNCHANGED <<sharedVars, restore_base, restore_files, srtool, srinput>>
    /\ UNCHANGED <<backupVars, restoreVars, monthlyVars>>

\* lines 80-87: one object of the listing is downloaded into the bucket's
\* directory; ClientError is re-raised
MonthlyRestoreDownloadFile ==
    /\ srpc = "download"
    /\ srtodo # <<>>
    /\ LET b == monthly_restore_buckets[srpos]
           f == Head(srtodo)
       IN  \E outcome \in {"ok", "ClientError"} :
            IF outcome = "ok"
            THEN /\ restore_files' = [restore_files EXCEPT ![b] = @ \cup {f}]
                 /\ srtodo' = Tail(srtodo)
                 /\ UNCHANGED <<srpc, srpos, srresponse, monthly_restored, srphase>>
            ELSE /\ MonthlyRestoreFail("ClientError")
                 /\ srphase' = [srphase EXCEPT ![b] = "download_failed"]
                 /\ UNCHANGED restore_files
    /\ UNCHANGED <<sharedVars, restore_base, restore_dirs, srtool, srinput>>
    /\ UNCHANGED <<backupVars, restoreVars, monthlyVars>>

\* lines 89-120: the restore tool runs on the bucket's directory; after a
\* zero exit the directory is emptied and removed and the destination is
\* recorded.  With INFLUXDB_NEW_ORG unset the command holds None and
\* subprocess.run raises TypeError before the tool is started.
MonthlyRestoreRun ==
    /\ srpc = "download"
    /\ srtodo = <<>>
    /\ LET b == monthly_restore_buckets[srpos]
       IN  IF ~srinput[1].new_org
           THEN /\ MonthlyRestoreFail("TypeError")
                /\ srphase' = [srphase EXCEPT ![b] = "command_failed"]
                /\ UNCHANGED <<srtool, restore_dirs, restore_files>>
           ELSE
           /\ srtool' = Append(srtool, b)
           /\ \E rc \in {"zero", "nonzero", "timeout"} :
                IF RestoreToolRaises(rc)
                THEN /\ MonthlyRestoreFail(IF rc = "timeout" THEN "TimeoutExpired"
                                                             ELSE "Exception")
                     /\ srphase' = [srphase EXCEPT ![b] =
                            IF rc = "timeout" THEN "restore_timeout"
                            ELSE "restore_failed"]
                     /\ UNCHANGED <<restore_dirs, restore_files>>
                ELSE /\ restore_files' = [restore_files EXCEPT ![b] = {}]
                     /\ restore_dirs' = restore_dirs \ {b}
                     /\ monthly_restored' = Append(monthly_restored, dest_bucket(b))
                     /\ srphase' = [srphase EXCEPT ![b] =
                            IF rc = "zero" THEN "restored"
                            ELSE IF rc = "timeout" THEN "restore_timeout"
                            ELSE "restore_failed"]
                     /\ MonthlyRestoreNextBucket
                     /\ UNCHANGED srresponse
    /\ UNCHANGED <<sharedVars, restore_base, srinput>>
    /\ UNCHANGED <<backupVars, restoreVars, monthlyVars>>

\* lines 122-136: os.rmdir(restore_base_path), which succeeds on an empty
\* directory only; then the success response
MonthlyRestoreFinish ==
    /\ srpc = "finish"
    /\ restore_base' = (restore_dirs # {})
    /\ srresponse' = [statusCode |-> 200, error |-> "", buckets |-> monthly_restored]
    /\ srpc' = "done"
    /\ srpos' = 0
    /\ monthly_restored' = <<>>
    /\ UNCHANGED <<sharedVars, srtodo, restore_dirs, restore_files, srphase,
                   srtool, srinput>>
    /\ UNCHANGED <<backupVars, restoreVars, monthlyVars>>

\* The execution environment is recycled between invocations.
MonthlyRestoreRecycle ==
    /\ srpc \in {"idle", "done"}
    /\ restore_base
    /\ restore_base' = FALSE
    /\ restore_dirs' = {}
    /\ restore_files' = [b \in Names |-> {}]
    /\ UNCHANGED <<sharedVars, srpc, srpos, srtodo, srresponse, monthly_restored,
                   srphase, srtool, srinput>>
    /\ UNCHANGED <<backupVars, restoreVars, monthlyVars>>

\* The object store as an earlier monthly backup left it: the snapshot
\* files of any subset of the buckets.
StoredSnapshots(S) == {<<b, f>> : b \in S, f \in SnapshotFiles}

InitSnapshotStore ==
    /\ InitShared
    /\ InitBackup /\ InitRestore /\ InitMonthlyRestore
    /\ mpc = "idle"
    /\ mpos = 0
    /\ mtodo = <<>>
    /\ mresponse = NoMonthlyResponse
    /\ mbase = FALSE
    /\ mdirs = {}
    /\ mfiles = [b \in Names |-> {}]
    /\ muploaded \in {StoredSnapshots(S) : S \in SUBSET Names}
    /\ mphase = [b \in Names |-> "none"]
    /\ mrun = NoMonthlyRun
    /\ monthly_input = Absent

NextMonthlyRestore ==
    \/ MonthlyRestoreInvoke
    \/ MonthlyRestoreFetchToken
    \/ MonthlyRestoreList
    \/ MonthlyRestoreDownloadFile
    \/ MonthlyRestoreRun
    \/ MonthlyRestoreFinish
    \/ MonthlyRestoreRecycle

SpecMonthlyRestore == InitSnapshotStore /\ [][NextMonthlyRestore]_vars

\* ====================================================== the four functions

\* No invocation of any of the four functions is in progress.
AllQuiet ==
    /\ ~Running(Main)
    /\ rpc \in {"idle", "done"}
    /\ mpc \in {"idle", "done"}
    /\ srpc \in {"idle", "done"}

\* The object store holds the artifacts and snapshots of earlier backups,
\* which covered some of the buckets.
InitAll ==
    /\ clock = StartClock
    /\ runs = 0
    /\ checkpoint = [b \in Names |-> Absent]
    /\ \E S \in SUBSET Names :
        /\ artifacts = StoredArtifacts(S)
        /\ muploaded = StoredSnapshots(S)
    /\ InitBackup /\ InitRestore /\ InitMonthlyRestore
    /\ mpc = "idle"
    /\ mpos = 0
    /\ mtodo = <<>>
    /\ mresponse = NoMonthlyResponse
    /\ mbase = FALSE
    /\ mdirs = {}
    /\ mfiles = [b \in Names |-> {}]
    /\ mphase = [b \in Names |-> "none"]
    /\ mrun = NoMonthlyRun
    /\ monthly_input = Absent

\* The four functions are invoked one at a time, each in its own container.
NextAll ==
    \/ AllQuiet /\ Invoke(Main)
    \/ Step(Main)
    \/ Recycle(Main)
    \/ AllQuiet /\ RestoreInvoke
    \/ RestoreFetchToken
    \/ RestoreDownload
    \/ RestoreDecompress
    \/ RestoreLoad
    \/ RestoreFinish
    \/ RestoreRecycle
    \/ AllQuiet /\ MonthlyInvoke
    \/ MonthlyFetchToken
    \/ MonthlySnapshot
    \/ MonthlyUploadFile
    \/ MonthlyRemoveDir
    \/ MonthlyFinish
    \/ MonthlyRecycle
    \/ AllQuiet /\ MonthlyRestoreInvoke
    \/ MonthlyRestoreFetchToken
    \/ MonthlyRestoreList
    \/ MonthlyRestoreDownloadFile
    \/ MonthlyRestoreRun
    \/ MonthlyRestoreFinish
    \/ MonthlyRestoreRecycle
    \/ Tick

SpecAll == InitAll /\ [][NextAll]_vars

\* The statements of a handler that has been invoked and has not returned.
HandlerStep ==
    \/ Step(Main)
    \/ RestoreFetchToken
    \/ RestoreDownload
    \/ RestoreDecompress
    \/ RestoreLoad
    \/ RestoreFinish
    \/ MonthlyFetchToken
    \/ MonthlySnapshot
    \/ MonthlyUploadFile
    \/ MonthlyRemoveDir
    \/ MonthlyFinish
    \/ MonthlyRestoreFetchToken
    \/ MonthlyRestoreList
    \/ MonthlyRestoreDownloadFile
    \/ MonthlyRestoreRun
    \/ MonthlyRestoreFinish

\* An invoked handler keeps executing: every call it makes returns or
\* raises (the tools run under a timeout, the clients give up after their
\* retries).
SpecAllFair == SpecAll /\ WF_vars(HandlerStep)

\* ================================================== daily backup: claims

\* C1: a bucket's checkpoint is put only after its extraction exited zero
\* and its output was then found empty or its artifact was uploaded; a unit
\* of work whose extraction or upload failed never has its checkpoint put.
C1_CheckpointOnlyAfterTerminalStep ==
    /\ [](\A c \in Containers : \A p \in ckptWrites[c] :
            unit[c][p].status = "CHECKPOINTED")
    /\ [][\A c \in Containers : \A p \in ckptWrites'[c] \ ckptWrites[c] :
            /\ p = pos[c]
            /\ unit[c][p].status \in {"EMPTY", "UPLOADED"}
            /\ unit[c][p].status = "EMPTY" => temp_csv[c] = Absent
            /\ unit[c][p].status = "UPLOADED" => s3_key(c) \in DOMAIN artifacts]_vars

\* C1 witness: the first bucket was uploaded and checkpointed, the second
\* bucket's upload failed and its checkpoint was not put.
C1_Witness ==
    /\ pc[Main] = "done"
    /\ Len(unit[Main]) = 2
    /\ ckptWrites[Main] = {1}
    /\ unit[Main][2].status = "FAILED_UPLOAD"
    /\ artifacts # <<>>

\* C2 (as stated): after a failed extraction of b the next window of b
\* starts where the failed one did, with or without a stored checkpoint.
C2_SameWindowAfterFailure ==
    \A c \in Containers :
        pc[c] = "extract" =>
            LET b == buckets[c][pos[c]].name
            IN  lastFail[b] # Absent => Strftime(start_time[c]) = lastFail[b][1]

\* C2 (amended): a failed extraction leaves the stored checkpoint as it
\* was; with a stored checkpoint the next window of b starts where the
\* failed one did; without one it starts 24 hours before the instant of the
\* new run's read, which is not earlier than the failed window's start.
C2_FailedWindowRetried ==
    /\ [](\A c \in Containers :
            pc[c] = "extract" =>
                LET b == buckets[c][pos[c]].name
                IN  lastFail[b] # Absent =>
                        IF checkpoint[b] # Absent
                        THEN /\ start_time[c] = checkpoint[b][1]
                             /\ Strftime(start_time[c]) = lastFail[b][1]
                        ELSE /\ Strftime(start_time[c]) >= lastFail[b][1]
                             /\ current_time[c] <= start_time[c] + Hours24
                             /\ start_time[c] + Hours24 <= clock)
    /\ [][\A c \in Containers :
            (pc[c] = "extract" /\ pc'[c] = "done") => checkpoint' = checkpoint]_vars

\* C2 witness: a run reads the window of a bucket whose last extraction
\* failed and whose checkpoint is stored.
C2_Witness ==
    /\ pc[Main] = "extract"
    /\ lastFail[buckets[Main][pos[Main]].name] # Absent
    /\ checkpoint[buckets[Main][pos[Main]].name] # Absent

\* C3 (as stated): no step lowers a stored checkpoint.
C3_CheckpointNeverDecreases ==
    [][\A b \in Names :
        checkpoint[b] # Absent =>
            checkpoint'[b] # Absent /\ checkpoint'[b][1] >= checkpoint[b][1]]_vars

\* C3 (amended): a run that has overlapped no other run never lowers a
\* stored checkpoint.
C3_NoDecreaseWithoutOverlap ==
    [][\A c \in Containers :
        (ckptWrites'[c] \ ckptWrites[c] # {} /\ ~overlapped[c]) =>
            \A b \in Names :
                checkpoint[b] # Absent =>
                    checkpoint'[b] # Absent /\ checkpoint'[b][1] >= checkpoint[b][1]]_vars

\* C3 witness: two runs that did not overlap have both put the checkpoint
\* of the same bucket, the later one at a later instant.
C3_Witness ==
    /\ \A c \in Containers : pc[c] = "done" /\ ~overlapped[c] /\ ckptWrites[c] = {1}
    /\ unit[1][1].name = unit[2][1].name
    /\ checkpoint[unit[1][1].name] = Some(MaxClock)

\* C4: every bucket whose checkpoint a run has put is named in the bucket
\* list of the response that run returns.
C4_AdvancedBucketsReported ==
    \A c \in Containers :
        pc[c] = "done" =>
            \A p \in ckptWrites[c] :
                \E i \in 1..Len(response[c].buckets) :
                    response[c].buckets[i] = unit[c][p].name

\* C5: the failure of bucket N ends the run at once with status 500; no
\* step of a later bucket has run, the earlier buckets are checkpointed or
\* skipped, and the failing step puts no checkpoint.
C5_FailureAbortsRun ==
    /\ [](\A c \in Containers : \A p \in 1..Len(unit[c]) :
            unit[c][p].status \in FailedStatuses =>
                /\ pc[c] = "done"
                /\ response[c].statusCode = 500
                /\ \A q \in (p + 1)..Len(unit[c]) : unit[c][q].status = "PENDING"
                /\ \A q \in 1..(p - 1) :
                        /\ unit[c][q].status \in {"CHECKPOINTED", "SKIPPED"}
                        /\ unit[c][q].status = "CHECKPOINTED" =>
                                q \in ckptWrites[c] /\ checkpoint[unit[c][q].name] # Absent
                /\ ckptWrites[c] \subseteq 1..(p - 1))
    /\ [][\A c \in Containers :
            (pc[c] # "done" /\ pc'[c] = "done" /\ response'[c].statusCode = 500) =>
                checkpoint' = checkpoint /\ artifacts' = artifacts]_vars

\* C5 witness: the second of two buckets failed its extraction after the
\* first was checkpointed; the second has no checkpoint.
C5_Witness ==
    /\ pc[Main] = "done"
    /\ response[Main].statusCode = 500
    /\ Len(unit[Main]) = 2
    /\ unit[Main][1].status = "CHECKPOINTED"
    /\ unit[Main][2].status = "FAILED_EXTRACT"
    /\ checkpoint[unit[Main][1].name] # Absent
    /\ checkpoint[unit[Main][2].name] = Absent

\* C8: when the handler has returned, neither /tmp/data.csv nor
\* /tmp/data.csv.gz exists.
C8_TempFilesGoneOnReturn ==
    \A c \in Containers :
        pc[c] = "done" => temp_csv[c] = Absent /\ temp_gzip[c] = Absent

\* ================================================= daily restore: claims

InSeq(x, sq) == \E i \in 1..Len(sq) : sq[i] = x

\* C6 (as stated): every run that passes the validation of its
\* configuration attempts every configured bucket.
C6_ValidatedRunAttemptsAll ==
    (rpc = "done" /\ rresponse.error # "ValueError") => attempted = restore_buckets

\* C6 (amended): every run that reaches the per-bucket loop attempts every
\* configured bucket, whatever happened to the earlier ones: no step of
\* the loop ends the run, and the loop is left only after the last bucket.
C6_LoopAttemptsAll ==
    /\ []((rpc = "done" /\ rresponse.error = "") => attempted = restore_buckets)
    /\ [](rpc = "finish" => attempted = restore_buckets)
    /\ [][(rpc \in {"download", "decompress", "load"}) =>
            (rpc' \in {"download", "decompress", "load", "finish"})]_vars

\* C6 witness: the first bucket failed in the load tool and the second
\* was still restored.
C6_Witness ==
    /\ rpc = "done"
    /\ attempted = restore_buckets
    /\ failed_buckets = <<"asset_bucket">>
    /\ restored_buckets = <<"cloud_bucket">>
    /\ Len(load_input) = 2

\* C7: the response has status 200 exactly when some bucket was restored;
\* a response of the loop with status 500 lists every bucket as failed; a
\* bucket without artifact is listed as failed and does not lower the
\* status of a run that restored another bucket.
C7_RestoreStatus ==
    rpc = "done" =>
        /\ rresponse.statusCode \in {200, 500}
        /\ rresponse.statusCode = 200 <=> restored_buckets # <<>>
        /\ rresponse.statusCode = 200 =>
                /\ rresponse.restored_buckets = restored_buckets
                /\ rresponse.failed_buckets = failed_buckets
        /\ (rresponse.statusCode = 500 /\ rresponse.error = "") =>
                \A i \in 1..Len(restore_buckets) :
                    InSeq(restore_buckets[i], rresponse.failed_buckets)
        /\ rresponse.error = "" =>
                \A i \in 1..Len(restore_buckets) :
                    restore_key(restore_buckets[i]) \notin DOMAIN artifacts =>
                        /\ InSeq(restore_buckets[i], failed_buckets)
                        /\ ~InSeq(restore_buckets[i], restored_buckets)

\* C7 witness: the artifact of asset_bucket exists and is restored, that
\* of cloud_bucket does not exist; the status is 200.
C7_Witness ==
    /\ rpc = "done"
    /\ restore_key("asset_bucket") \in DOMAIN artifacts
    /\ restore_key("cloud_bucket") \notin DOMAIN artifacts
    /\ rresponse.statusCode = 200
    /\ rresponse.restored_buckets = <<"asset_bucket">>
    /\ rresponse.failed_buckets = <<"cloud_bucket">>

\* C9: when the handler has returned, no file of any bucket is left in
\* /tmp/restore.
C9_RestoreTempFilesGone == rpc = "done" => rfiles = <<>>

\* ================================================ monthly backup: claims

\* C10: once the upload phase of a bucket is over, with or without a
\* failed upload, the bucket's snapshot directory holds no file and has
\* been removed.
C10_SnapshotDirDrained ==
    \A b \in Names :
        mphase[b] \in {"uploaded", "upload_failed"} =>
            mfiles[b] = {} /\ b \notin mdirs

\* =============================================== monthly restore: claims

\* C11: when the handler has returned, the restore directory of every
\* bucket the run has processed (restored, skipped, or failed in the
\* listing, a download or the restore tool) is empty and removed.
C11_RestoreDirCleanedOnAllPaths ==
    srpc = "done" =>
        \A b \in Names :
            srphase[b] # "none" => restore_files[b] = {} /\ b \notin restore_dirs

\* ================================================ monthly backup: claims

SnapshotFailed(b) == mrun[b].rc \in {"nonzero", "timeout"}

\* C12: a non-zero exit or a timeout of the snapshot tool for a bucket ends
\* the run at once with status 500: nothing of that bucket is uploaded and
\* no later bucket is snapshotted or uploaded; status 200 is returned only
\* when the tool exited zero for every configured bucket and every file
\* listed in its directory was uploaded.
C12_SnapshotFailureAbortsRun ==
    /\ \A i \in 1..Len(monthly_buckets) :
            SnapshotFailed(monthly_buckets[i]) =>
                /\ mpc = "done"
                /\ mresponse.statusCode = 500
                /\ mrun[monthly_buckets[i]].uploaded = {}
                /\ \A j \in (i + 1)..Len(monthly_buckets) :
                        mrun[monthly_buckets[j]] = NoMonthlyRun[monthly_buckets[j]]
    /\ mresponse.statusCode = 200 =>
            \A i \in 1..Len(monthly_buckets) :
                /\ mrun[monthly_buckets[i]].rc = "zero"
                /\ mrun[monthly_buckets[i]].listed # {}
                /\ mrun[monthly_buckets[i]].uploaded = mrun[monthly_buckets[i]].listed

\* C12 witness: the first bucket was snapshotted and uploaded, the snapshot
\* tool timed out on the second; the run ended with status 500.
C12_Witness ==
    /\ mpc = "done"
    /\ mresponse.statusCode = 500
    /\ mrun["asset_bucket"].rc = "zero"
    /\ mrun["asset_bucket"].listed # {}
    /\ mrun["asset_bucket"].uploaded = mrun["asset_bucket"].listed
    /\ mrun["cloud_bucket"].rc = "timeout"
    /\ mrun["cloud_bucket"].uploaded = {}

\* ================================================== daily backup: claims

\* C13: a bucket whose measurement list is empty after trimming is skipped:
\* its checkpoint is neither read nor put, no tool runs and nothing is
\* uploaded for it; the skip leaves the store, the temporary files and the
\* response as they were and moves the loop on to the next bucket.
C13_EmptyMeasurementsSkipped ==
    /\ [](\A c \in Containers : \A i \in 1..Len(buckets[c]) :
            buckets[c][i].measurements = <<>> =>
                /\ unit[c][i].status \in {"PENDING", "SKIPPED"}
                /\ i \notin ckptWrites[c]
                /\ pos[c] = i => pc[c] = "loop"
                /\ pos[c] > i => unit[c][i].status = "SKIPPED")
    /\ [][\A c \in Containers :
            (/\ pc[c] = "loop"
             /\ pos[c] \in 1..Len(buckets[c])
             /\ buckets[c][pos[c]].measurements = <<>>
             /\ <<pc[c], pos[c]>> # <<pc'[c], pos'[c]>>) =>
                (/\ pc'[c] = "loop"
                 /\ pos'[c] = pos[c] + 1
                 /\ unit'[c][pos[c]].status = "SKIPPED"
                 /\ UNCHANGED <<checkpoint, artifacts, temp_csv, temp_gzip,
                                response, backed_up_buckets, start_time>>)]_vars

\* C13 witness: the first bucket of the list had only blank measurements
\* and was skipped, the second was backed up; the run returned 200.
C13_Witness ==
    /\ pc[Main] = "done"
    /\ Len(unit[Main]) = 2
    /\ unit[Main][1].status = "SKIPPED"
    /\ unit[Main][2].status = "CHECKPOINTED"
    /\ checkpoint[unit[Main][1].name] = Absent
    /\ response[Main] = [statusCode |-> 200, buckets |-> <<unit[Main][2].name>>]

\* C14: when the extraction of a bucket exited zero with no output, the
\* output file is removed and nothing is uploaded; the checkpoint of the
\* bucket is then put with the run's current_time and the bucket is added
\* to the list the run reports; a run that ends without failure returns
\* that list with status 200.
C14_EmptyExtractionAdvances ==
    /\ [](\A c \in Containers :
            pc[c] = "update_empty" =>
                /\ unit[c][pos[c]].status = "EMPTY"
                /\ temp_csv[c] = Absent)
    /\ [][\A c \in Containers :
            /\ (pc[c] = "check" /\ temp_csv[c][1].rows = 0 /\ pc'[c] # pc[c]) =>
                    (pc'[c] = "update_empty" /\ artifacts' = artifacts
                     /\ checkpoint' = checkpoint)
            /\ (pc[c] = "update_empty" /\ pc'[c] = "loop") =>
                    (/\ checkpoint'[buckets[c][pos[c]].name] = Some(current_time[c])
                     /\ backed_up_buckets'[c] =
                            Append(backed_up_buckets[c], buckets[c][pos[c]].name)
                     /\ artifacts' = artifacts)
            /\ (pc[c] = "update_empty" /\ pc'[c] # pc[c] /\ pc'[c] # "loop") =>
                    (pc'[c] = "done" /\ response'[c].statusCode = 500
                     /\ checkpoint' = checkpoint /\ artifacts' = artifacts)
            /\ (pc[c] = "loop" /\ pc'[c] = "done") =>
                    response'[c] = [statusCode |-> 200,
                                    buckets |-> backed_up_buckets[c]]]_vars

\* C14 witness: the only bucket of the run had an empty extraction; the run
\* returned 200 naming the bucket, its checkpoint is stored and the store
\* holds no artifact.
C14_Witness ==
    /\ pc[Main] = "done"
    /\ Len(unit[Main]) = 1
    /\ unit[Main][1].status = "CHECKPOINTED"
    /\ response[Main] = [statusCode |-> 200, buckets |-> <<unit[Main][1].name>>]
    /\ checkpoint[unit[Main][1].name] # Absent
    /\ artifacts = <<>>
    /\ temp_csv[Main] = Absent

\* C15: for a bucket without stored checkpoint the extraction window starts
\* 24 hours before the run's current_time, the instant that is also the
\* stop of the window and the value written to the checkpoint.
C15_DefaultWindowFromRunNow ==
    \A c \in Containers :
        (pc[c] = "extract" /\ checkpoint[buckets[c][pos[c]].name] = Absent) =>
            Strftime(start_time[c]) = Strftime(current_time[c] - Hours24)

\* C16: every window handed to the extraction tool has start <= stop.
C16_WindowNotInverted ==
    \A c \in Containers :
        temp_csv[c] # Absent => temp_csv[c][1].start <= temp_csv[c][1].stop

\* C17: within one run no two list positions that name the same bucket
\* both have their checkpoint put.
C17_CheckpointWrittenOncePerName ==
    \A c \in Containers : \A p, q \in ckptWrites[c] :
        unit[c][p].name = unit[c][q].name => p = q

\* ================================================ the four functions: claims

ToolFailures == {"nonzero", "timeout"}

\* C18: a timeout of the external tool is propagated as its non-zero exit
\* is.  Daily restore: the bucket is recorded as failed, is not recorded as
\* restored, and the run goes on to its own response after every bucket
\* was attempted.  Daily backup, monthly backup and monthly restore: the run
\* ends at once with status 500 and no later bucket is processed.
C18_TimeoutPropagatesLikeFailure ==
    /\ \A i \in 1..Len(load_input) :
            load_input[i].rc \in ToolFailures =>
                /\ InSeq(load_input[i].bucket, failed_buckets)
                /\ ~InSeq(load_input[i].bucket, restored_buckets)
                /\ rpc # "done" \/ (rresponse.error = "" /\ attempted = restore_buckets)
    /\ \A p \in 1..Len(unit[Main]) :
            unit[Main][p].status \in {"FAILED_EXTRACT", "FAILED_TIMEOUT"} =>
                /\ pc[Main] = "done"
                /\ response[Main].statusCode = 500
                /\ \A q \in (p + 1)..Len(unit[Main]) : unit[Main][q].status = "PENDING"
    /\ \A i \in 1..Len(monthly_buckets) :
            mrun[monthly_buckets[i]].rc \in ToolFailures =>
                /\ mpc = "done"
                /\ mresponse.statusCode = 500
                /\ \A j \in (i + 1)..Len(monthly_buckets) :
                        mrun[monthly_buckets[j]].rc = "none"
    /\ \A i \in 1..Len(monthly_restore_buckets) :
            srphase[monthly_restore_buckets[i]] \in {"restore_failed", "restore_timeout"} =>
                /\ srpc = "done"
                /\ srresponse.statusCode = 500
                /\ \A j \in (i + 1)..Len(monthly_restore_buckets) :
                        srphase[monthly_restore_buckets[j]] = "none"

\* C18 witness: a daily backup run ended with 500 on the timeout of its
\* first extraction; a daily restore run then had the load of asset_bucket
\* time out, recorded it as failed and still restored cloud_bucket.
C18_Witness ==
    /\ pc[Main] = "done"
    /\ Len(unit[Main]) = 2
    /\ unit[Main][1].status = "FAILED_TIMEOUT"
    /\ response[Main].statusCode = 500
    /\ rpc = "done"
    /\ Len(load_input) = 2
    /\ load_input[1].rc = "timeout"
    /\ failed_buckets = <<"asset_bucket">>
    /\ restored_buckets = <<"cloud_bucket">>
    /\ rresponse.statusCode = 200

\* the handlers return from validation without touching the store or /tmp
ValidationFrame ==
    UNCHANGED <<checkpoint, artifacts, muploaded, temp_csv, temp_gzip,
                temp_dir, rfiles, mbase, mdirs, mfiles,
                restore_base, restore_dirs, restore_files>>

\* C19: a run whose environment lacks a required value, whose bucket list
\* has a malformed entry, or whose backup_date / backup_timestamp is missing
\* or malformed has returned 500 from its validation: it never reaches the
\* secret fetch, the per-bucket loop, the tools or the store, and the step
\* that validates the input changes neither the store nor /tmp.
C19_ConfigErrorNoPartialExecution ==
    /\ [](backup_input[Main] # Absent =>
            LET in == backup_input[Main][1]
                resolved == LoadBuckets(in)
            IN  (\/ ~in.env_ok
                 \/ \E i \in 1..Len(resolved) :
                        {"name", "measurements"} \ DOMAIN resolved[i] # {}) =>
                    /\ pc[Main] = "done"
                    /\ response[Main] = ErrorResponse
                    /\ unit[Main] = <<>>
                    /\ ckptWrites[Main] = {})
    /\ [](restore_input # Absent =>
            ((~restore_input[1].env_ok \/ restore_input[1].date_kind # "date") =>
                /\ rpc = "done"
                /\ rresponse = RestoreErrorResponse("ValueError")
                /\ attempted = <<>>
                /\ load_input = <<>>))
    /\ [](monthly_input # Absent =>
            (~monthly_input[1].env_ok =>
                /\ mpc = "done"
                /\ mresponse = MonthlyErrorResponse("ValueError")
                /\ mrun = NoMonthlyRun))
    /\ [](srinput # Absent =>
            ((\/ ~srinput[1].env_ok
              \/ ~srinput[1].new_org
              \/ srinput[1].timestamp_kind # "valid") =>
                /\ srpc = "done"
                /\ srresponse = MonthlyRestoreErrorResponse("ValueError")
                /\ srtool = <<>>
                /\ \A b \in Names : srphase[b] = "none"))
    /\ [][runs' # runs => ValidationFrame]_vars

\* =============================================== monthly restore: claims

\* C20: a bucket whose listing returns no object is skipped: the restore
\* tool is not run for it, its destination is not reported as restored, the
\* loop goes on to the next bucket (or to the response after the last one),
\* and a run whose other buckets were restored or skipped returns 200.
C20_EmptyListingSkipped ==
    /\ [](\A b \in Names :
            (srphase[b] # "none" /\ ListedObjects(b) = {}) =>
                /\ srphase[b] \in {"skipped", "list_failed"}
                /\ ~InSeq(b, srtool)
                /\ ~InSeq(dest_bucket(b), monthly_restored)
                /\ ~InSeq(dest_bucket(b), srresponse.buckets)
                /\ restore_files[b] = {})
    /\ [](\A b \in Names :
            srphase[b] = "skipped" =>
                /\ ListedObjects(b) = {}
                /\ (srpc = "done" /\ \A o \in Names : srphase[o] \in {"skipped", "restored"})
                        => srresponse.statusCode = 200)
    /\ [][\A b \in Names :
            (srphase[b] # "skipped" /\ srphase'[b] = "skipped") =>
                (/\ srpc' \in {"list", "finish"}
                 /\ srpos' = srpos + 1
                 /\ srresponse' = srresponse
                 /\ monthly_restored' = monthly_restored
                 /\ srtool' = srtool)]_vars

\* C20 witness: asset_bucket had no object and was skipped, cloud_bucket
\* was restored after it; the run returned 200 naming only the destination
\* of cloud_bucket.
C20_Witness ==
    /\ srpc = "done"
    /\ srphase["asset_bucket"] = "skipped"
    /\ srphase["cloud_bucket"] = "restored"
    /\ srtool = <<"cloud_bucket">>
    /\ srresponse = [statusCode |-> 200, error |-> "",
                     buckets |-> <<"restored_cloud_bucket">>]

\* a response as a handler returns it: 200 with the bucket lists of the
\* success summary, or 500 with an error (for the daily restore also the
\* 500 of the loop, which lists the failed buckets)
BackupResponseShape(r) ==
    \/ r.statusCode = 200 /\ \A i \in 1..Len(r.buckets) : r.buckets[i] \in Names
    \/ r = ErrorResponse

RestoreResponseShape(r) ==
    \/ r.statusCode = 200 /\ r.error = "" /\ r.restored_buckets # <<>>
    \/ r.statusCode = 500 /\ r.error = "" /\ r.failed_buckets # <<>>
                          /\ r.restored_buckets = <<>>
    \/ r.statusCode = 500 /\ r.error # "" /\ r.restored_buckets = <<>>
                          /\ r.failed_buckets = <<>>

MonthlyResponseShape(r) ==
    \/ r.statusCode = 200 /\ r.error = ""
    \/ r.statusCode = 500 /\ r.error # "" /\ r.buckets = <<>>

\* C21: every invocation of each handler returns: a handler that was
\* invoked is eventually done, and a handler that is done has returned a
\* response with status 200 and a bucket summary or status 500 and an error.
C21_HandlersReturnResponse ==
    /\ [](pc[Main] = "done" => BackupResponseShape(response[Main]))
    /\ [](rpc = "done" => RestoreResponseShape(rresponse))
    /\ [](mpc = "done" => MonthlyResponseShape(mresponse))
    /\ [](srpc = "done" => MonthlyResponseShape(srresponse))
    /\ (~AllQuiet ~> AllQuiet)

\* C21 witness: a daily backup run returned 200 with its bucket list, and a
\* monthly restore run whose restore command could not be started returned
\* 500 with the error.
C21_Witness ==
    /\ pc[Main] = "done"
    /\ response[Main].statusCode = 200
    /\ response[Main].buckets # <<>>
    /\ srpc = "done"
    /\ srresponse = MonthlyRestoreErrorResponse("TypeError")

\* ================================================== daily backup: claims

\* C22: an artifact whose window the checkpoint of its bucket has passed
\* (its run was successful) is never replaced by the artifact of a later
\* window: the object stays under its key with the content it was uploaded
\* with.
C22_ArtifactNotOverwritten ==
    [][\A k \in DOMAIN artifacts :
            (/\ checkpoint[k[2]] # Absent
             /\ Strftime(checkpoint[k[2]][1]) >= Gunzip(artifacts[k]).stop) =>
                (/\ k \in DOMAIN artifacts'
                 /\ artifacts'[k] # artifacts[k] =>
                        ~(Gunzip(artifacts[k]).stop < Gunzip(artifacts'[k]).stop))]_vars

\* the output of the extraction of the bucket at the current list position
OwnExtraction(c, file) ==
    /\ file.bucket = buckets[c][pos[c]].name
    /\ file.start = Strftime(start_time[c])
    /\ file.stop = Strftime(current_time[c])

\* C23: the file whose size decides on the empty result, the file that is
\* compressed and the file that is uploaded are the output of the current
\* bucket's own extraction in this run, and the object put under the
\* bucket's key is its compression; what an earlier bucket or an earlier
\* run left in /tmp/data.csv or /tmp/data.csv.gz is never used.
C23_OwnExtractionUploaded ==
    /\ [](\A c \in Containers :
            /\ pc[c] \in {"check", "compress"} =>
                    temp_csv[c] # Absent /\ OwnExtraction(c, temp_csv[c][1])
            /\ pc[c] = "upload" =>
                    /\ temp_gzip[c] # Absent
                    /\ OwnExtraction(c, Gunzip(temp_gzip[c][1]))
                    /\ Gunzip(temp_gzip[c][1]).rows > 0)
    /\ [][\A c \in Containers :
            (pc[c] = "upload" /\ artifacts' # artifacts) =>
                (/\ artifacts'[s3_key(c)] = temp_gzip[c][1]
                 /\ Gunzip(artifacts'[s3_key(c)]).bucket = s3_key(c)[2]
                 /\ \A k \in DOMAIN artifacts \ {s3_key(c)} :
                        k \in DOMAIN artifacts' /\ artifacts'[k] = artifacts[k])]_vars

\* C23 witness: /tmp/data.csv.gz still holds what a failed compression of
\* another bucket left there, and the extraction of the current bucket has
\* written its own output to /tmp/data.csv.
C23_Witness ==
    /\ pc[Main] = "compress"
    /\ temp_gzip[Main] # Absent
    /\ Gunzip(temp_gzip[Main][1]).bucket # buckets[Main][pos[Main]].name
    /\ OwnExtraction(Main, temp_csv[Main][1])

\* ================================================= daily restore: claims

\* the elements of a sequence, and whether none of them is repeated
Elems(sq) == {sq[i] : i \in 1..Len(sq)}
NoDuplicates(sq) == Cardinality(Elems(sq)) = Len(sq)

\* C24: when the per-bucket loop is over, restored_buckets and
\* failed_buckets have no bucket in common, neither repeats a bucket, and
\* together they hold exactly the configured buckets; while the loop runs
\* they hold exactly the buckets already processed.
C24_ListsPartitionBuckets ==
    /\ NoDuplicates(restored_buckets) /\ NoDuplicates(failed_buckets)
    /\ Elems(restored_buckets) \cap Elems(failed_buckets) = {}
    /\ rpc \in {"download", "decompress", "load"} =>
            Elems(restored_buckets) \cup Elems(failed_buckets)
                = {restore_buckets[i] : i \in 1..(rpos - 1)}
    /\ (rpc = "finish" \/ (rpc = "done" /\ rresponse.error = "")) =>
            /\ Elems(restored_buckets) \cup Elems(failed_buckets)
                    = Elems(restore_buckets)
            /\ Len(restored_buckets) + Len(failed_buckets) = Len(restore_buckets)
    /\ (rpc = "done" /\ rresponse.error = "") =>
            /\ rresponse.failed_buckets = failed_buckets
            /\ rresponse.restored_buckets = restored_buckets

\* C24 witness: the run restored asset_bucket, failed cloud_bucket in the
\* load tool, and returned both lists.
C24_Witness ==
    /\ rpc = "done"
    /\ rresponse.error = ""
    /\ restored_buckets = <<"asset_bucket">>
    /\ failed_buckets = <<"cloud_bucket">>
    /\ Len(load_input) = 2
    /\ load_input[2].rc = "nonzero"

====
